---- MODULE Spec2Model ----
(***************************************************************************)
(* News portal query engine.                                               *)
(*                                                                         *)
(* The repository holds several generations of the same read-only engine: *)
(*   "pgx"   usecase.NewsUseCase over repository/postgres.Repository       *)
(*           (raw SQL, internal/repository/postgres/postgres.go)           *)
(*   "gopg"  newsportal.Manager with attachTagsBatch over db.Repository    *)
(*           (go-pg queries, internal/db/repo.go)                          *)
(*   "gopg2" the Manager over the same repository that converts to News    *)
(*           before tag attach (newsportal/convert.go); listing and single *)
(*           lookup only, its other calls are those of "gopg"              *)
(*   "mfd"   newsportal.Manager with validatePagination, fillTags and      *)
(*           NewsList.SetTags over the generated db.NewsRepo               *)
(*           (internal/newsportal/news.go, collection.go)                  *)
(*   "gopg3" the Manager of "gopg" with the attachTagsBatch that rewrites  *)
(*           TagIDs (newsportal/convert.go, second file version); listing  *)
(*           and single lookup only                                        *)
(* Each engine call is one action, and so is each request through a        *)
(* handler (delivery, rest, rpc); the storage tables are the state the     *)
(* calls read.  Strings are modelled as integers (0 is the empty string),  *)
(* time as an integer clock.                                               *)
(*                                                                         *)
(* ConcSpec runs listings of several callers at once, each in the steps    *)
(* of its Manager method: page query, tag attach, conversion.              *)
(*                                                                         *)
(* ServerSpec is the life of the host process (cmd/app main and runServer, *)
(* app.App): the serving goroutine, the quit channel, the signals and the  *)
(* shutdown of the HTTP server.                                            *)
(***************************************************************************)
EXTENDS Integers, Sequences, FiniteSets, TLC

VARIABLES news, categories, tags, now, pc, call, ret, io, prev, proc, inflight

vars == <<news, categories, tags, now, pc, call, ret, io, prev, proc, inflight>>

store == <<news, categories, tags, now>>

----------------------------------------------------------------------------
(* Program constants *)

StatusPublished == 1
defaultPage == 1
defaultPageSize == 10
maxPageSize == 100
ShutdownTimeout == 5
QuitCap == 1

(* A nil *int argument, a nil result *)
Nil == -1

(* Bounds of the model *)
MaxNews == 2
MaxCat == 3
MaxTag == 3
MaxTime == 4
MaxPage == 2
MaxPageSize == 2
MaxActive == 2
MaxCallers == 2

NewsIds == 1..MaxNews
CatIds == 1..MaxCat
TagIds == 1..MaxTag

Min(a, b) == IF a < b THEN a ELSE b

Range(s) == {s[i] : i \in 1..Len(s)}

----------------------------------------------------------------------------
(* Storage contents the engine can be started on *)

StatusUnpublished == StatusPublished + 1

(* categories 1..MaxCat-1 are published, the last one is not; the display  *)
(* order runs against the id order                                         *)
CategoryTable ==
  [c \in CatIds |->
     [Title |-> c,
      OrderNumber |-> MaxCat + 1 - c,
      StatusID |-> IF c = MaxCat THEN StatusUnpublished ELSE StatusPublished]]

(* tags 1..MaxTag-1 are published, the last one is not, MaxTag+1 does not  *)
(* exist; titles are distinct and run against the id order                 *)
TagTable ==
  [t \in TagIds |->
     [Title |-> MaxTag + 1 - t,
      StatusID |-> IF t = MaxTag THEN StatusUnpublished ELSE StatusPublished]]

ClockNow == MaxTime - 1

NewsRow(c, s, at, ids) ==
  [CategoryID |-> c, StatusID |-> s, PublishedAt |-> at, TagIDs |-> ids,
   Content |-> 1]

(* the tag-id lists a stored row may carry: none, two published tags out   *)
(* of title order, a published and an unpublished tag, a tag that does not *)
(* exist, one tag twice                                                    *)
TagIdLists ==
  << <<>>, <<1, 2>>, <<MaxTag, 1>>, <<MaxTag + 1>>, <<2, 2>> >>

(* visible rows in the first and the last published category, at the       *)
(* earliest and the latest past time; one row per tag-id list; one row per *)
(* way of being hidden                                                     *)
NewsShapes ==
  LET visible == {NewsRow(c, StatusPublished, at, TagIdLists[2]) :
                    c \in {1, MaxCat - 1}, at \in {1, ClockNow - 1}}
      tagged  == {NewsRow(1, StatusPublished, 1, TagIdLists[i]) :
                    i \in 1..Len(TagIdLists)}
      hidden  == {NewsRow(1, StatusUnpublished, 1, TagIdLists[2]),
                  NewsRow(MaxCat, StatusPublished, 1, TagIdLists[2]),
                  NewsRow(1, StatusPublished, ClockNow, TagIdLists[2]),
                  NewsRow(1, StatusPublished, MaxTime, TagIdLists[2])}
  IN visible \cup tagged \cup hidden

RECURSIVE SetToSeq(_)
SetToSeq(S) ==
  IF S = {} THEN <<>> ELSE LET x == CHOOSE y \in S : TRUE IN <<x>> \o SetToSeq(S \ {x})

ShapeSeq == SetToSeq(NewsShapes)

(* row ids carry no meaning to any query, so the tables are enumerated up  *)
(* to a renaming of the ids                                                *)
NewsTables ==
  {[n \in NewsIds |-> ShapeSeq[f[n]]] :
     f \in {g \in [NewsIds -> 1..Len(ShapeSeq)] :
              \A i, j \in NewsIds : i < j => g[i] <= g[j]}}

----------------------------------------------------------------------------
(* Records *)

NewCategory(c) ==
  [CategoryID |-> c, Title |-> categories[c].Title,
   OrderNumber |-> categories[c].OrderNumber, StatusID |-> categories[c].StatusID]

NewTag(t) == [TagID |-> t, Title |-> tags[t].Title, StatusID |-> tags[t].StatusID]

(* the zero value of the Go struct Tag *)
ZeroTag == [TagID |-> 0, Title |-> 0, StatusID |-> 0]

(* a news row as a query scans it, the joined category embedded; Tags is a *)
(* Go slice: TagsNil tells a nil slice from an empty one                   *)
DbNews(n) ==
  [NewsID |-> n, CategoryID |-> news[n].CategoryID, Content |-> news[n].Content,
   PublishedAt |-> news[n].PublishedAt, StatusID |-> news[n].StatusID,
   TagIDs |-> news[n].TagIDs, Category |-> NewCategory(news[n].CategoryID),
   Tags |-> <<>>, TagsNil |-> TRUE]

NoCall ==
  [stack |-> "none", op |-> "none", tagID |-> Nil, categoryID |-> Nil,
   page |-> Nil, pageSize |-> Nil, id |-> Nil, fail |-> "none"]

NoRet == [err |-> "none", rows |-> <<>>, attached |-> <<>>, count |-> 0, list |-> <<>>]

NoIO == [queries |-> 0, tagLookups |-> 0, requested |-> {}, limit |-> 0, sent |-> 0,
         fetched |-> {}]

NoPrev == [call |-> NoCall, ret |-> NoRet]

(* the host process as main starts it: the main goroutine about to wait on *)
(* the quit channel, the serving goroutine launched and not yet run.       *)
(* part_028 builds the http.Server before the goroutine starts, App.Run    *)
(* assigns a.Server inside it.                                             *)
StartedProc(m) ==
  [main |-> m, at |-> "waiting", run |-> "start", quit |-> <<>>,
   server |-> (m = "main"), active |-> 0, elapsed |-> 0, signalled |-> FALSE,
   failed |-> FALSE, graceful |-> FALSE, exit |-> "none"]

NoProc == [StartedProc("none") EXCEPT !.at = "none", !.run = "none"]

(* the goroutines the host server runs engine calls on; a frame holds what *)
(* one call keeps on its stack: its arguments, the slice the page query    *)
(* returned, and its result                                                *)
Callers == 1..MaxCallers

NoFrame == [at |-> "idle", stack |-> "none", in |-> NoCall, news |-> <<>>, ret |-> NoRet]

NoFrames == [p \in Callers |-> NoFrame]

Fails == {"none", "fetch", "tags"}

----------------------------------------------------------------------------
(* Sorting and paging as the database does them *)

RECURSIVE InsertByTitle(_, _)
InsertByTitle(t, s) ==
  IF s = <<>> THEN <<t>>
  ELSE IF t.Title < Head(s).Title THEN <<t>> \o s
  ELSE <<Head(s)>> \o InsertByTitle(t, Tail(s))

RECURSIVE SortByTitle(_)
SortByTitle(s) ==
  IF s = <<>> THEN <<>> ELSE InsertByTitle(Head(s), SortByTitle(Tail(s)))

(* the selected rows without an ORDER BY clause: any order *)
AnyOrders(S) ==
  {f \in [1..Cardinality(S) -> S] :
     \A i, j \in 1..Cardinality(S) : i # j => f[i] # f[j]}

(* ORDER BY "publishedAt" DESC: every order of the selected rows that is   *)
(* non-increasing in publishedAt; rows with equal publishedAt come in an   *)
(* order the database is free to choose at each query                      *)
DescOrders(S) ==
  {f \in [1..Cardinality(S) -> S] :
     /\ \A i, j \in 1..Cardinality(S) : i # j => f[i] # f[j]
     /\ \A i, j \in 1..Cardinality(S) :
          i < j => news[f[i]].PublishedAt >= news[f[j]].PublishedAt}

(* LIMIT limit OFFSET offset *)
LimitOffset(ord, limit, offset) == SubSeq(ord, offset + 1, Min(Len(ord), offset + limit))

(* ORDER BY "orderNumber" ASC over a set of category records *)
RECURSIVE InsertByOrder(_, _)
InsertByOrder(c, s) ==
  IF s = <<>> THEN <<c>>
  ELSE IF c.OrderNumber < Head(s).OrderNumber THEN <<c>> \o s
  ELSE <<Head(s)>> \o InsertByOrder(c, Tail(s))

(* the rows as selected, without ORDER BY "orderNumber" *)
SelectedOrder(s) == s

RECURSIVE SortByOrder(_)
SortByOrder(s) ==
  IF s = <<>> THEN <<>> ELSE InsertByOrder(Head(s), SortByOrder(Tail(s)))

(* the optional filters of every variant: category equality, tag containment *)
MatchesFilters(n, tagID, categoryID) ==
  /\ categoryID # Nil => news[n].CategoryID = categoryID
  /\ tagID # Nil => tagID \in Range(news[n].TagIDs)

(* WHERE statusId = published AND category.statusId = published AND        *)
(* publishedAt < now                                                       *)
IsVisible(n) ==
  /\ news[n].StatusID = StatusPublished
  /\ categories[news[n].CategoryID].StatusID = StatusPublished
  /\ news[n].PublishedAt < now

----------------------------------------------------------------------------
(* "gopg": db.Repository (internal/db/repo.go) under newsportal.Manager.   *)
(* The Manager names the repository's listing, count and lookup News,      *)
(* NewsCount and NewsByID; the repository carries them as GetAllNews,      *)
(* GetNewsCount and GetNewsByID.                                           *)

(* GetAllNews without the tagID clause *)
DbNewsWhereNoTag(n, tagID, categoryID) == IsVisible(n) /\ MatchesFilters(n, Nil, categoryID)

(* the WHERE clauses of db.Repository.GetAllNews *)

DbNewsWhere(n, tagID, categoryID) == IsVisible(n) /\ MatchesFilters(n, tagID, categoryID)

DbGetAllNews(tagID, categoryID, page, pageSize, fail, ord) ==
  IF page < 1 \/ pageSize < 1
    THEN [err |-> "invalid", rows |-> <<>>, queries |-> 0]
  ELSE IF fail = "fetch"
    THEN [err |-> "storage", rows |-> <<>>, queries |-> 1]
  ELSE LET ids == LimitOffset(ord, pageSize, (page - 1) * pageSize)
       IN [err |-> "none", rows |-> [i \in 1..Len(ids) |-> DbNews(ids[i])],
           queries |-> 1]

(* the WHERE clauses of db.Repository.GetNewsCount: the filters alone *)
DbCountWhere(n, tagID, categoryID) == MatchesFilters(n, tagID, categoryID)

DbGetNewsCount(tagID, categoryID, fail) ==
  IF fail = "fetch"
    THEN [err |-> "storage", count |-> 0, queries |-> 1]
    ELSE [err |-> "none",
          count |-> Cardinality({n \in NewsIds : DbCountWhere(n, tagID, categoryID)}),
          queries |-> 1]

(* pg.ErrNoRows becomes ErrNewsNotFound *)
DbGetNewsByID(newsID, fail) ==
  IF fail = "fetch"
    THEN [err |-> "storage", rows |-> <<>>, queries |-> 1]
  ELSE IF newsID \in NewsIds /\ IsVisible(newsID)
    THEN [err |-> "none", rows |-> <<DbNews(newsID)>>, queries |-> 1]
    ELSE [err |-> "notfound", rows |-> <<>>, queries |-> 1]

(* the ids of the tags a lookup returned *)
TagIdsOf(found) == {found[i].TagID : i \in 1..Len(found)}

(* WHERE "tagId" IN (ids) AND "statusId" = published ORDER BY "title" ASC *)
DbGetTagsByIDs(ids) ==
  IF ids = {} THEN <<>>
  ELSE SortByTitle(SetToSeq({NewTag(t) : t \in
         {u \in TagIds \cap ids : tags[u].StatusID = StatusPublished}}))

(* the tags of one row: its ids found in tagsByID, in id-list order, then  *)
(* sorted by title                                                         *)
RECURSIVE ResolveIds(_, _)
ResolveIds(ids, found) ==
  IF ids = <<>> THEN <<>>
  ELSE (IF \E t \in Range(found) : t.TagID = Head(ids)
          THEN <<CHOOSE t \in Range(found) : t.TagID = Head(ids)>>
          ELSE <<>>) \o ResolveIds(Tail(ids), found)

attachTagsBatch(rows, fail) ==
  LET tagSet == UNION {Range(rows[i].TagIDs) : i \in 1..Len(rows)}
      found  == DbGetTagsByIDs(tagSet)
  IN IF Len(rows) = 0
       THEN [err |-> "none", rows |-> rows, tagLookups |-> 0, requested |-> {},
             fetched |-> {}]
     ELSE IF tagSet = {}
       THEN [err |-> "none",
             rows |-> [i \in 1..Len(rows) |->
                         [rows[i] EXCEPT !.Tags = <<>>, !.TagsNil = FALSE]],
             tagLookups |-> 0, requested |-> {}, fetched |-> {}]
     ELSE IF fail = "tags"
       THEN [err |-> "storage", rows |-> <<>>, tagLookups |-> 1, requested |-> tagSet,
             fetched |-> {}]
     ELSE [err |-> "none",
           rows |-> [i \in 1..Len(rows) |->
                       [rows[i] EXCEPT
                          !.Tags = SortByTitle(ResolveIds(rows[i].TagIDs, found)),
                          !.TagsNil = FALSE]],
           tagLookups |-> 1, requested |-> tagSet, fetched |-> TagIdsOf(found)]

(* NewNews: Tags is copied only when it has elements, else left nil *)
MgrNewNews(r) ==
  [r EXCEPT !.TagIDs = <<>>, !.TagsNil = (Len(r.Tags) = 0)]

(* NewNewsSummary: as NewNews, without the content *)
MgrNewNewsSummary(r) ==
  [r EXCEPT !.Content = 0, !.TagIDs = <<>>, !.TagsNil = (Len(r.Tags) = 0)]

(* the call's result and its storage traffic *)
Outcome(err, rows, attached, queries, tagLookups, requested) ==
  [ret |-> [err |-> err, rows |-> rows, attached |-> attached, count |-> 0,
            list |-> <<>>],
   io  |-> [queries |-> queries, tagLookups |-> tagLookups, requested |-> requested,
            limit |-> 0, sent |-> 0, fetched |-> {}]]

(* the tag lookups of a call that succeeded: how many ids they carried and *)
(* the ids of the tags they returned                                       *)
WithLookup(o, sent, fetched) ==
  IF o.ret.err = "none" /\ o.io.tagLookups > 0
    THEN [o EXCEPT !.io.sent = sent, !.io.fetched = fetched]
    ELSE o

(* the LIMIT a call that reached the database sent with its page query *)
WithLimit(o, limit) == [o EXCEPT !.io.limit = IF o.io.queries > 0 THEN limit ELSE 0]

MgrNewsByFilter(tagID, categoryID, page, pageSize, fail, ord) ==
  LET q == DbGetAllNews(tagID, categoryID, page, pageSize, fail, ord)
      a == attachTagsBatch(q.rows, fail)
  IN WithLimit(IF q.err # "none"
              THEN Outcome(q.err, <<>>, <<>>, q.queries, 0, {})
            ELSE IF a.err # "none"
              THEN Outcome(a.err, <<>>, <<>>, q.queries + a.tagLookups, a.tagLookups,
                           a.requested)
            ELSE WithLookup(Outcome("none",
                         [i \in 1..Len(a.rows) |-> MgrNewNewsSummary(a.rows[i])],
                         a.rows, q.queries + a.tagLookups, a.tagLookups, a.requested),
                            Cardinality(a.requested), a.fetched),
               pageSize)

MgrNewsCount(tagID, categoryID, fail) ==
  LET q == DbGetNewsCount(tagID, categoryID, fail)
  IN [ret |-> [NoRet EXCEPT !.err = q.err, !.count = q.count],
      io  |-> [NoIO EXCEPT !.queries = q.queries]]

MgrNewsByID(newsID, fail) ==
  LET q == DbGetNewsByID(newsID, fail)
      a == attachTagsBatch(q.rows, fail)
  IN IF q.err # "none"
       THEN Outcome(q.err, <<>>, <<>>, q.queries, 0, {})
     ELSE IF q.rows = <<>>
       THEN Outcome("none", <<>>, <<>>, q.queries, 0, {})
     ELSE IF a.err # "none"
       THEN Outcome(a.err, <<>>, <<>>, q.queries + a.tagLookups, a.tagLookups,
                    a.requested)
     ELSE WithLookup(Outcome("none", <<MgrNewNews(a.rows[1])>>, a.rows,
                             q.queries + a.tagLookups, a.tagLookups, a.requested),
                     Cardinality(a.requested), a.fetched)

(* WHERE "statusId" = published ORDER BY "orderNumber" ASC *)
DbGetAllCategories(fail) ==
  IF fail = "fetch" THEN [err |-> "storage", list |-> <<>>]
  ELSE [err |-> "none",
        list |-> SortByOrder(SetToSeq({NewCategory(c) : c \in
                   {d \in CatIds : categories[d].StatusID = StatusPublished}}))]

(* WHERE "statusId" = published ORDER BY "title" ASC *)
DbGetAllTags(fail) ==
  IF fail = "fetch" THEN [err |-> "storage", list |-> <<>>]
  ELSE [err |-> "none",
        list |-> SortByTitle(SetToSeq({NewTag(t) : t \in
                   {u \in TagIds : tags[u].StatusID = StatusPublished}}))]

ListOutcome(q) ==
  [ret |-> [NoRet EXCEPT !.err = q.err, !.list = q.list],
   io  |-> [NoIO EXCEPT !.queries = 1]]

MgrCategories(fail) == ListOutcome(DbGetAllCategories(fail))

MgrTags(fail) == ListOutcome(DbGetAllTags(fail))

----------------------------------------------------------------------------
(* "gopg2": the Manager that converts the database rows to News before     *)
(* tag attach (unnamed/part_018) with the converters and attachTagsBatch   *)
(* of newsportal/convert.go; its repository is the one of "gopg".  Only    *)
(* the listing and the single lookup differ from "gopg".                   *)

(* NewNews: every field copied, one placeholder Tag per id of TagIDs; News *)
(* has no id list                                                          *)
ListNewNews(r) ==
  [r EXCEPT !.TagIDs = <<>>,
            !.Tags = [j \in 1..Len(r.TagIDs) |->
                        [TagID |-> r.TagIDs[j], Title |-> 0, StatusID |-> r.StatusID]],
            !.TagsNil = (Len(r.TagIDs) = 0)]

NewNewsList(list) == [i \in 1..Len(list) |-> ListNewNews(list[i])]

(* attachTagsBatch over []News: the ids are those of the placeholder tags, *)
(* the lookup is u.db.Tags(ctx), the listing of every published tag        *)
attachTagsBatchAllTags(rows, fail) ==
  LET tagSet == UNION {TagIdsOf(rows[i].Tags) : i \in 1..Len(rows)}
      q      == DbGetAllTags(IF fail = "tags" THEN "fetch" ELSE "none")
      idsOf(r) == [j \in 1..Len(r.Tags) |-> r.Tags[j].TagID]
  IN IF Len(rows) = 0
       THEN [err |-> "none", rows |-> rows, tagLookups |-> 0, requested |-> {},
             fetched |-> {}]
     ELSE IF tagSet = {}
       THEN [err |-> "none",
             rows |-> [i \in 1..Len(rows) |->
                         [rows[i] EXCEPT !.Tags = <<>>, !.TagsNil = FALSE]],
             tagLookups |-> 0, requested |-> {}, fetched |-> {}]
     ELSE IF q.err # "none"
       THEN [err |-> "storage", rows |-> <<>>, tagLookups |-> 1, requested |-> {},
             fetched |-> {}]
     ELSE [err |-> "none",
           rows |-> [i \in 1..Len(rows) |->
                       [rows[i] EXCEPT
                          !.Tags = SortByTitle(ResolveIds(idsOf(rows[i]), q.list)),
                          !.TagsNil = FALSE]],
           tagLookups |-> 1, requested |-> {}, fetched |-> TagIdsOf(q.list)]

Mgr2NewsByFilter(tagID, categoryID, page, pageSize, fail, ord) ==
  LET q == DbGetAllNews(tagID, categoryID, page, pageSize, fail, ord)
      a == attachTagsBatchAllTags(NewNewsList(q.rows), fail)
  IN WithLimit(IF q.err # "none"
              THEN Outcome(q.err, <<>>, <<>>, q.queries, 0, {})
            ELSE IF a.err # "none"
              THEN Outcome(a.err, <<>>, <<>>, q.queries + a.tagLookups, a.tagLookups,
                           a.requested)
            ELSE WithLookup(Outcome("none", a.rows, a.rows, q.queries + a.tagLookups,
                                    a.tagLookups, a.requested),
                            0, a.fetched),
               pageSize)

Mgr2NewsByID(newsID, fail) ==
  LET q == DbGetNewsByID(newsID, fail)
      a == attachTagsBatchAllTags(NewNewsList(q.rows), fail)
  IN IF q.err # "none"
       THEN Outcome(q.err, <<>>, <<>>, q.queries, 0, {})
     ELSE IF q.rows = <<>>
       THEN Outcome("none", <<>>, <<>>, q.queries, 0, {})
     ELSE IF a.err # "none"
       THEN Outcome(a.err, <<>>, <<>>, q.queries + a.tagLookups, a.tagLookups,
                    a.requested)
     ELSE WithLookup(Outcome("none", a.rows, a.rows, q.queries + a.tagLookups,
                             a.tagLookups, a.requested),
                     0, a.fetched)

----------------------------------------------------------------------------
(* "gopg3": the Manager of "gopg" with the converters and attachTagsBatch  *)
(* of the second newsportal/convert.go (from line 175): tag attach         *)
(* rewrites the TagIDs of the database rows, and the converters build      *)
(* each tag from an id of TagIDs and the title and status of the news.     *)
(* Only the listing and the single lookup differ from "gopg".              *)

(* for i := range out { news[i].TagIDs[i] = int(out[i].ID) }: the inner i  *)
(* shadows the row index, so the k-th id is written to the k-th row; an    *)
(* index outside news or outside that row's TagIDs is a run-time panic     *)
RECURSIVE ShadowedWrite(_, _, _)
ShadowedWrite(lists, out, k) ==
  IF k > Len(out) THEN [panic |-> FALSE, lists |-> lists]
  ELSE IF k > Len(lists) \/ k > Len(lists[k]) THEN [panic |-> TRUE, lists |-> lists]
  ELSE ShadowedWrite([lists EXCEPT ![k][k] = out[k]], out, k + 1)

(* the row loop of attachTagsBatch over the rows' TagIDs, row i onwards *)
RECURSIVE RewriteTagIDs(_, _, _)
RewriteTagIDs(lists, found, i) ==
  IF i > Len(lists) THEN [panic |-> FALSE, lists |-> lists]
  ELSE IF Len(lists[i]) = 0 THEN RewriteTagIDs(lists, found, i + 1)
  ELSE LET sorted == SortByTitle(ResolveIds(lists[i], found))
           out    == [j \in 1..Len(sorted) |-> sorted[j].TagID]
           w      == ShadowedWrite([lists EXCEPT ![i] = [j \in 1..Len(out) |-> 0]],
                                   out, 1)
       IN IF w.panic THEN w ELSE RewriteTagIDs(w.lists, found, i + 1)

(* NewNews of the second convert.go: one Tag per id of TagIDs, with the    *)
(* status of the news and the title of the news (a string that is no       *)
(* tag's title)                                                            *)
TagsFromTagIDs(r) ==
  [j \in 1..Len(r.TagIDs) |->
     [TagID |-> r.TagIDs[j], Title |-> MaxTag + 1, StatusID |-> r.StatusID]]

attachTagsBatchTagIDs(rows, fail) ==
  LET tagSet == UNION {Range(rows[i].TagIDs) : i \in 1..Len(rows)}
      q      == DbGetAllTags(IF fail = "tags" THEN "fetch" ELSE "none")
      w      == RewriteTagIDs([i \in 1..Len(rows) |-> rows[i].TagIDs], q.list, 1)
      none   == [err |-> "none", rows |-> rows, tagLookups |-> 0, requested |-> {},
                 fetched |-> {}]
  IN IF Len(rows) = 0 \/ tagSet = {} THEN none
     ELSE IF q.err # "none"
       THEN [none EXCEPT !.err = "storage", !.rows = <<>>, !.tagLookups = 1]
     ELSE IF w.panic
       THEN [none EXCEPT !.err = "panic", !.rows = <<>>, !.tagLookups = 1]
     ELSE [none EXCEPT !.rows = [i \in 1..Len(rows) |->
                                   [rows[i] EXCEPT !.TagIDs = w.lists[i]]],
                       !.tagLookups = 1, !.fetched = TagIdsOf(q.list)]

(* the rows after tag attach with the tags the converters build from them *)
Mgr3Attached(rows) ==
  [i \in 1..Len(rows) |->
     [rows[i] EXCEPT !.Tags = TagsFromTagIDs(rows[i]), !.TagsNil = FALSE]]

Mgr3NewNews(r) ==
  [r EXCEPT !.TagIDs = <<>>, !.Tags = TagsFromTagIDs(r), !.TagsNil = (Len(r.TagIDs) = 0)]

Mgr3NewsByFilter(tagID, categoryID, page, pageSize, fail, ord) ==
  LET q == DbGetAllNews(tagID, categoryID, page, pageSize, fail, ord)
      a == attachTagsBatchTagIDs(q.rows, fail)
  IN WithLimit(IF q.err # "none"
              THEN Outcome(q.err, <<>>, <<>>, q.queries, 0, {})
            ELSE IF a.err # "none"
              THEN Outcome(a.err, <<>>, <<>>, q.queries + a.tagLookups, a.tagLookups,
                           a.requested)
            ELSE WithLookup(Outcome("none",
                                    [i \in 1..Len(a.rows) |->
                                       [Mgr3NewNews(a.rows[i]) EXCEPT !.Content = 0]],
                                    Mgr3Attached(a.rows), q.queries + a.tagLookups,
                                    a.tagLookups, a.requested),
                            0, a.fetched),
               pageSize)

Mgr3NewsByID(newsID, fail) ==
  LET q == DbGetNewsByID(newsID, fail)
      a == attachTagsBatchTagIDs(q.rows, fail)
  IN IF q.err # "none"
       THEN Outcome(q.err, <<>>, <<>>, q.queries, 0, {})
     ELSE IF q.rows = <<>>
       THEN Outcome("none", <<>>, <<>>, q.queries, 0, {})
     ELSE IF a.err # "none"
       THEN Outcome(a.err, <<>>, <<>>, q.queries + a.tagLookups, a.tagLookups,
                    a.requested)
     ELSE WithLookup(Outcome("none", <<Mgr3NewNews(a.rows[1])>>, Mgr3Attached(a.rows),
                             q.queries + a.tagLookups, a.tagLookups, a.requested),
                     0, a.fetched)

----------------------------------------------------------------------------
(* "pgx": repository/postgres.Repository (raw SQL) under usecase.NewsUseCase *)

(* the WHERE clause of postgres.Repository.GetAllNews and GetNewsCount: the *)
(* two optional filters                                                    *)
PgNewsWhere(n, tagID, categoryID) == MatchesFilters(n, tagID, categoryID)

(* getTagsByIDs: WHERE "tagId" = ANY(ids) ORDER BY "title" ASC *)
pgGetTagsByIDs(ids) ==
  SortByTitle(SetToSeq({NewTag(t) : t \in TagIds \cap Range(ids)}))

(* the row loop of GetAllNews and the tail of GetNewsByID: one tag query   *)
(* for each row that has tag ids                                           *)
PgRowWithTags(r) ==
  IF Len(r.TagIDs) > 0
    THEN [r EXCEPT !.Tags = pgGetTagsByIDs(r.TagIDs),
                   !.TagsNil = (pgGetTagsByIDs(r.TagIDs) = <<>>)]
    ELSE [r EXCEPT !.Tags = <<>>, !.TagsNil = FALSE]

PgTagQueries(rows) == Cardinality({i \in 1..Len(rows) : Len(rows[i].TagIDs) > 0})

(* the ids the row loop passes to getTagsByIDs, row after row *)
RECURSIVE PgIdsSent(_)
PgIdsSent(rows) ==
  IF rows = <<>> THEN 0 ELSE Len(Head(rows).TagIDs) + PgIdsSent(Tail(rows))

PgIdsFetched(rows) ==
  UNION {TagIdsOf(pgGetTagsByIDs(rows[i].TagIDs)) : i \in 1..Len(rows)}

PgGetAllNews(tagID, categoryID, page, pageSize, fail, ord) ==
  LET ids  == LimitOffset(ord, pageSize, (page - 1) * pageSize)
      rows == [i \in 1..Len(ids) |-> DbNews(ids[i])]
      req  == UNION {Range(rows[i].TagIDs) : i \in 1..Len(rows)}
  IN WithLimit(IF page < 1 \/ pageSize < 1
              THEN Outcome("invalid", <<>>, <<>>, 0, 0, {})
            ELSE IF fail = "fetch"
              THEN Outcome("storage", <<>>, <<>>, 1, 0, {})
            ELSE IF fail = "tags" /\ PgTagQueries(rows) > 0
              THEN Outcome("storage", <<>>, <<>>, 2, 1, req)
            ELSE WithLookup(Outcome("none",
                                    [i \in 1..Len(rows) |-> PgRowWithTags(rows[i])],
                                    [i \in 1..Len(rows) |-> PgRowWithTags(rows[i])],
                                    1 + PgTagQueries(rows), PgTagQueries(rows), req),
                            PgIdsSent(rows), PgIdsFetched(rows)),
               pageSize)

(* domain.NewsSummary: the row without content (and without the id list,   *)
(* which domain.News does not carry)                                       *)
UcNewsSummary(r) == [r EXCEPT !.Content = 0, !.TagIDs = <<>>]

UcGetAllNews(tagID, categoryID, page, pageSize, fail, ord) ==
  LET o == PgGetAllNews(tagID, categoryID, page, pageSize, fail, ord)
  IN IF o.ret.err # "none" THEN o
     ELSE [o EXCEPT !.ret.rows = [i \in 1..Len(o.ret.rows) |->
                                    UcNewsSummary(o.ret.rows[i])]]

PgGetNewsCount(tagID, categoryID, fail) ==
  IF fail = "fetch"
    THEN [err |-> "storage", count |-> 0]
    ELSE [err |-> "none",
          count |-> Cardinality({n \in NewsIds : PgNewsWhere(n, tagID, categoryID)})]

UcGetNewsCount(tagID, categoryID, fail) ==
  LET q == PgGetNewsCount(tagID, categoryID, fail)
  IN [ret |-> [NoRet EXCEPT !.err = q.err, !.count = q.count],
      io  |-> [NoIO EXCEPT !.queries = 1]]

(* WHERE n."newsId" = $1; pgx.ErrNoRows becomes a "not found" error *)
PgGetNewsByID(newsID, fail) ==
  IF fail = "fetch"
    THEN Outcome("storage", <<>>, <<>>, 1, 0, {})
  ELSE IF newsID \notin NewsIds
    THEN Outcome("notfound", <<>>, <<>>, 1, 0, {})
  ELSE IF fail = "tags" /\ Len(news[newsID].TagIDs) > 0
    THEN Outcome("storage", <<>>, <<>>, 2, 1, Range(news[newsID].TagIDs))
  ELSE WithLookup(Outcome("none", <<PgRowWithTags(DbNews(newsID))>>,
                          <<PgRowWithTags(DbNews(newsID))>>,
                          1 + PgTagQueries(<<DbNews(newsID)>>),
                          PgTagQueries(<<DbNews(newsID)>>), Range(news[newsID].TagIDs)),
                  PgIdsSent(<<DbNews(newsID)>>), PgIdsFetched(<<DbNews(newsID)>>))

UcGetNewsByID(newsID, fail) ==
  LET o == PgGetNewsByID(newsID, fail)
  IN IF o.ret.err # "none" THEN o
     ELSE [o EXCEPT !.ret.rows = <<[o.ret.rows[1] EXCEPT !.TagIDs = <<>>]>>]

(* SELECT ... FROM "categories" ORDER BY "orderNumber" ASC *)
PgGetAllCategories(fail) ==
  IF fail = "fetch" THEN [err |-> "storage", list |-> <<>>]
  ELSE [err |-> "none",
        list |-> SortByOrder(SetToSeq({NewCategory(c) : c \in CatIds}))]

(* SELECT ... FROM "tags" ORDER BY "title" ASC *)
PgGetAllTags(fail) ==
  IF fail = "fetch" THEN [err |-> "storage", list |-> <<>>]
  ELSE [err |-> "none", list |-> SortByTitle(SetToSeq({NewTag(t) : t \in TagIds}))]

UcGetAllCategories(fail) == ListOutcome(PgGetAllCategories(fail))

UcGetAllTags(fail) == ListOutcome(PgGetAllTags(fail))

----------------------------------------------------------------------------
(* "mfd": newsportal.Manager (internal/newsportal/news.go) over db.NewsRepo *)

(* validatePagination with the page-size test written "< 0" *)
validatePaginationZeroSize(page, pageSize) ==
  IF page # Nil /\ page <= 0 THEN [err |-> "invalid", p |-> 0, ps |-> 0]
  ELSE IF pageSize # Nil /\ pageSize < 0 THEN [err |-> "invalid", p |-> 0, ps |-> 0]
  ELSE [err |-> "none",
        p  |-> IF page # Nil THEN page ELSE defaultPage,
        ps |-> IF pageSize = Nil THEN defaultPageSize
               ELSE IF pageSize > maxPageSize THEN maxPageSize ELSE pageSize]

validatePagination(page, pageSize) ==
  IF page # Nil /\ page <= 0 THEN [err |-> "invalid", p |-> 0, ps |-> 0]
  ELSE IF pageSize # Nil /\ pageSize <= 0 THEN [err |-> "invalid", p |-> 0, ps |-> 0]
  ELSE [err |-> "none",
        p  |-> IF page # Nil THEN page ELSE defaultPage,
        ps |-> IF pageSize = Nil THEN defaultPageSize
               ELSE IF pageSize > maxPageSize THEN maxPageSize ELSE pageSize]

(* the query options NewsByFilter, NewsCount and NewsByID pass: EnabledOnly, *)
(* WithPublishedBefore(now), WithCategoryEnabled, the category of the      *)
(* search and withTagIDFilter                                              *)
MfdNewsWhere(n, tagID, categoryID) == IsVisible(n) /\ MatchesFilters(n, tagID, categoryID)

(* db.NewsRepo.NewsByFilters with db.NewPager(p, ps) *)
RepoNewsByFilters(p, ps, fail, ord) ==
  IF fail = "fetch" THEN [err |-> "storage", rows |-> <<>>]
  ELSE LET ids == LimitOffset(ord, ps, (p - 1) * ps)
       IN [err |-> "none", rows |-> [i \in 1..Len(ids) |-> DbNews(ids[i])]]

(* db.TagRepo.TagsByFilters(&db.TagSearch{IDs: ids}, db.EnabledOnly()) *)
RepoTagsByIDs(ids) ==
  SortByTitle(SetToSeq({NewTag(t) : t \in
    {u \in TagIds \cap ids : tags[u].StatusID = StatusPublished}}))

(* TagsByIds without the return on an empty id list *)
TagsByIdsAlways(tagIds, fail) ==
  IF fail = "tags" THEN [err |-> "storage", tags |-> <<>>, tagLookups |-> 1]
  ELSE [err |-> "none", tags |-> RepoTagsByIDs(tagIds), tagLookups |-> 1]

TagsByIds(tagIds, fail) ==
  IF tagIds = {} THEN [err |-> "none", tags |-> <<>>, tagLookups |-> 0]
  ELSE IF fail = "tags" THEN [err |-> "storage", tags |-> <<>>, tagLookups |-> 1]
  ELSE [err |-> "none", tags |-> RepoTagsByIDs(tagIds), tagLookups |-> 1]

(* tags.IndexByID()[tagID]: the tag, or the zero Tag when the id is no key *)
IndexByID(found, tagID) ==
  IF \E t \in Range(found) : t.TagID = tagID
    THEN CHOOSE t \in Range(found) : t.TagID = tagID
    ELSE ZeroTag

SetTags(ll, found) ==
  [i \in 1..Len(ll) |->
     [ll[i] EXCEPT !.Tags = [j \in 1..Len(ll[i].TagIDs) |->
                               IndexByID(found, ll[i].TagIDs[j])],
                   !.TagsNil = FALSE]]

(* NewsList.UniqueTagIDs *)
UniqueTagIDs(ll) == UNION {Range(ll[i].TagIDs) : i \in 1..Len(ll)}

(* Manager.fillTags: one TagsByIds for the list, then SetTags *)
fillTags(ll, fail) ==
  LET t == TagsByIds(UniqueTagIDs(ll), fail)
  IN IF t.err # "none"
       THEN [err |-> t.err, rows |-> ll, tagLookups |-> t.tagLookups, fetched |-> {}]
       ELSE [err |-> "none", rows |-> SetTags(ll, t.tags), tagLookups |-> t.tagLookups,
             fetched |-> TagIdsOf(t.tags)]

(* the error of repo.NewsByFilters is overwritten by that of fillTags      *)
(* before it is read                                                       *)
NewsByFilter(tagID, categoryID, page, pageSize, fail, ord) ==
  LET v == validatePagination(page, pageSize)
      q == RepoNewsByFilters(v.p, v.ps, fail, ord)
      f == fillTags(q.rows, fail)
  IN WithLimit(IF v.err # "none"
              THEN Outcome("invalid", <<>>, <<>>, 0, 0, {})
            ELSE IF f.err # "none"
              THEN Outcome(f.err, <<>>, <<>>, 1 + f.tagLookups, f.tagLookups,
                           UniqueTagIDs(q.rows))
            ELSE WithLookup(Outcome("none", f.rows, f.rows, 1 + f.tagLookups,
                                    f.tagLookups,
                                    IF f.tagLookups > 0 THEN UniqueTagIDs(q.rows) ELSE {}),
                            Cardinality(UniqueTagIDs(q.rows)), f.fetched),
               v.ps)

(* db.NewsRepo.CountNews with the options of NewsCount *)
RepoCountNews(tagID, categoryID, fail) ==
  IF fail = "fetch"
    THEN [err |-> "storage", count |-> 0]
    ELSE [err |-> "none",
          count |-> Cardinality({n \in NewsIds : MfdNewsWhere(n, tagID, categoryID)})]

NewsCount(tagID, categoryID, fail) ==
  LET q == RepoCountNews(tagID, categoryID, fail)
  IN [ret |-> [NoRet EXCEPT !.err = q.err,
                            !.count = IF q.err # "none" THEN 0 ELSE q.count],
      io  |-> [NoIO EXCEPT !.queries = 1]]

(* db.NewsRepo.NewsByID with the options of NewsByID: the row, or nil *)
RepoNewsByID(newsID, fail) ==
  IF fail = "fetch" THEN [err |-> "storage", rows |-> <<>>]
  ELSE IF newsID \in NewsIds /\ MfdNewsWhere(newsID, Nil, Nil)
    THEN [err |-> "none", rows |-> <<DbNews(newsID)>>]
    ELSE [err |-> "none", rows |-> <<>>]

NewsByID(newsID, fail) ==
  LET q == RepoNewsByID(newsID, fail)
      f == fillTags(q.rows, fail)
  IN IF q.err # "none"
       THEN Outcome(q.err, <<>>, <<>>, 1, 0, {})
     ELSE IF q.rows = <<>>
       THEN Outcome("none", <<>>, <<>>, 1, 0, {})
     ELSE IF f.err # "none"
       THEN Outcome(f.err, <<>>, <<>>, 1 + f.tagLookups, f.tagLookups,
                    UniqueTagIDs(q.rows))
     ELSE WithLookup(Outcome("none", f.rows, f.rows, 1 + f.tagLookups, f.tagLookups,
                             IF f.tagLookups > 0 THEN UniqueTagIDs(q.rows) ELSE {}),
                     Cardinality(UniqueTagIDs(q.rows)), f.fetched)

(* db.NewsRepo.CategoriesByFilters(nil, PagerNoLimit, EnabledOnly) *)
RepoCategories(fail) ==
  IF fail = "fetch" THEN [err |-> "storage", list |-> <<>>]
  ELSE [err |-> "none",
        list |-> SortByOrder(SetToSeq({NewCategory(c) : c \in
                   {d \in CatIds : categories[d].StatusID = StatusPublished}}))]

(* db.NewsRepo.TagsByFilters(nil, PagerNoLimit, WithSort(title), EnabledOnly) *)
RepoTags(fail) ==
  IF fail = "fetch" THEN [err |-> "storage", list |-> <<>>]
  ELSE [err |-> "none", list |-> RepoTagsByIDs(TagIds)]

Categories(fail) == ListOutcome(RepoCategories(fail))

Tags(fail) == ListOutcome(RepoTags(fail))

----------------------------------------------------------------------------
(* The request layer: the handlers that parse page and pageSize and call   *)
(* the engine.  A request answers "none" (200), "badrequest" (400) or      *)
(* "internal" (500).                                                       *)

(* parsePositiveIntOrDefault: the default for an absent parameter, an      *)
(* error for one that is not positive                                      *)
parsePositiveIntOrDefault(v, def) ==
  IF v = Nil THEN [err |-> "none", v |-> def]
  ELSE IF v <= 0 THEN [err |-> "badrequest", v |-> 0]
  ELSE [err |-> "none", v |-> v]

(* the handler's cap without the comparison with maxPageSize *)
capPageSizeNever(pageSize) == pageSize

(* if pageSize > maxPageSize { pageSize = maxPageSize } *)
capPageSize(pageSize) == IF pageSize > maxPageSize THEN maxPageSize ELSE pageSize

(* the engine's answer as the handler reports it *)
Answer(o) ==
  IF o.ret.err = "none" THEN o
  ELSE [o EXCEPT !.ret.err = "internal", !.ret.rows = <<>>, !.ret.attached = <<>>]

BadRequest == Outcome("badrequest", <<>>, <<>>, 0, 0, {})

(* delivery NewsHandler.GetAllNews over usecase.NewsUseCase *)
HttpGetAllNews(tagID, categoryID, page, pageSize, ord) ==
  LET p == parsePositiveIntOrDefault(page, defaultPage)
      k == parsePositiveIntOrDefault(pageSize, defaultPageSize)
  IN IF p.err # "none" \/ k.err # "none" THEN BadRequest
     ELSE Answer(UcGetAllNews(tagID, categoryID, p.v, capPageSize(k.v), "none", ord))

(* rest.NewNewsSummary over the Manager's News: every field copied, the    *)
(* category cut to id and title, an empty tag list turned to nil           *)
RestNewNewsSummary(r) ==
  [NewsID |-> r.NewsID, CategoryID |-> r.CategoryID, Content |-> r.Content,
   PublishedAt |-> r.PublishedAt,
   Category |-> [CategoryID |-> r.Category.CategoryID, Title |-> r.Category.Title],
   Tags |-> r.Tags, TagsNil |-> (Len(r.Tags) = 0)]

(* rest NewsHandler.News over the Manager with int parameters *)
RestNews(tagID, categoryID, page, pageSize, ord) ==
  LET p == parsePositiveIntOrDefault(page, defaultPage)
      k == parsePositiveIntOrDefault(pageSize, defaultPageSize)
      o == Answer(MgrNewsByFilter(tagID, categoryID, p.v, capPageSize(k.v), "none", ord))
  IN IF p.err # "none" \/ k.err # "none" THEN BadRequest
     ELSE [o EXCEPT !.ret.rows = [i \in 1..Len(o.ret.rows) |->
                                    RestNewNewsSummary(o.ret.rows[i])]]

(* rest.NewNewsSummary over the Manager's News with *Content: Content is   *)
(* copied                                                                  *)
RestNewNewsSummaryV2(r) ==
  [NewsID |-> r.NewsID, CategoryID |-> r.CategoryID, Content |-> r.Content,
   PublishedAt |-> r.PublishedAt,
   Category |-> [CategoryID |-> r.Category.CategoryID, Title |-> r.Category.Title],
   Tags |-> r.Tags, TagsNil |-> FALSE]

(* rest NewsHandler.News over the Manager with pointer parameters *)
RestNewsV2(tagID, categoryID, page, pageSize, ord) ==
  LET o == NewsByFilter(tagID, categoryID, page, pageSize, "none", ord)
  IN IF o.ret.err # "none" THEN Answer(o)
     ELSE [o EXCEPT !.ret.rows = [i \in 1..Len(o.ret.rows) |->
                                    RestNewNewsSummaryV2(o.ret.rows[i])]]

(* rpc.NewNewsSummary: NewsSummary has no content *)
RpcNewNewsSummary(r) ==
  [NewsID |-> r.NewsID, CategoryID |-> r.CategoryID, Content |-> 0,
   PublishedAt |-> r.PublishedAt,
   Category |-> [CategoryID |-> r.Category.CategoryID, Title |-> r.Category.Title],
   Tags |-> r.Tags, TagsNil |-> FALSE]

(* rpc NewsService.List: the converted rows and the Manager's error *)
RpcList(tagID, categoryID, page, pageSize, ord) ==
  LET o == NewsByFilter(tagID, categoryID, page, pageSize, "none", ord)
  IN [o EXCEPT !.ret.rows = [i \in 1..Len(o.ret.rows) |->
                               RpcNewNewsSummary(o.ret.rows[i])]]

(* The single lookup through a handler answers "none" (200),              *)
(* "notfound404" (404), "badrequest" (400) or "internal" (500).            *)
NotFound404 == Outcome("notfound404", <<>>, <<>>, 0, 0, {})

(* the handler's answer to an engine call that returned no error: 404 for  *)
(* a nil result, else the converted row                                    *)
FoundOr404(o, converted) ==
  IF o.ret.rows = <<>> THEN [NotFound404 EXCEPT !.io = o.io]
  ELSE [o EXCEPT !.ret.rows = converted]

(* delivery NewsHandler.GetNewsByID: every usecase error is answered 500 *)
HttpGetNewsByID(id) ==
  LET o == UcGetNewsByID(id, "none")
  IN IF o.ret.err # "none" THEN Answer(o) ELSE o

(* rest.NewNews over the Manager's News: the fields NewNewsSummary copies *)
RestNewNews(r) == RestNewNewsSummary(r)

(* rest NewsHandler.NewsByID over the Manager with attachTagsBatch: the    *)
(* Manager's error is returned to the framework, which answers 500         *)
RestNewsByID(id) ==
  LET o == MgrNewsByID(id, "none")
  IN IF o.ret.err # "none" THEN Answer(o)
     ELSE FoundOr404(o, [i \in 1..Len(o.ret.rows) |-> RestNewNews(o.ret.rows[i])])

RestNewNewsV2(r) == RestNewNewsSummaryV2(r)

(* rest NewsHandler.NewsByID over the news.go Manager *)
RestNewsByIDV2(id) ==
  LET o == NewsByID(id, "none")
  IN IF o.ret.err # "none" THEN Answer(o)
     ELSE FoundOr404(o, [i \in 1..Len(o.ret.rows) |-> RestNewNewsV2(o.ret.rows[i])])

RpcNewNews(r) == RestNewNewsSummaryV2(r)

(* rpc NewsService.ByID *)
RpcByID(id) ==
  LET o == NewsByID(id, "none")
  IN IF id <= 0 THEN BadRequest
     ELSE IF o.ret.err # "none" THEN Answer(o)
     ELSE FoundOr404(o, [i \in 1..Len(o.ret.rows) |-> RpcNewNews(o.ret.rows[i])])

----------------------------------------------------------------------------
(* Arguments of the calls *)

TagFilters == {Nil, 1, 2, MaxTag}
CatFilters == {Nil, 1, 2, MaxCat}
Pages == 0..MaxPage
PageSizes == (0..MaxPageSize) \cup {maxPageSize + 1}

(* every filter and paging argument on a healthy database, and one call    *)
(* per storage failure                                                     *)
ListInputs(pages, sizes) ==
  {[tagID |-> t, categoryID |-> c, page |-> p, pageSize |-> k, fail |-> "none"] :
     t \in TagFilters, c \in CatFilters, p \in pages, k \in sizes}
  \cup {[tagID |-> Nil, categoryID |-> Nil, page |-> 1, pageSize |-> MaxPageSize,
         fail |-> f] : f \in Fails}

CountInputs ==
  {[tagID |-> t, categoryID |-> c, fail |-> "none"] : t \in TagFilters, c \in CatFilters}
  \cup {[tagID |-> Nil, categoryID |-> Nil, fail |-> "fetch"]}

(* the requests a client sends to a handler on a healthy database *)
RequestInputs ==
  {[tagID |-> t, categoryID |-> c, page |-> p, pageSize |-> k, fail |-> "none"] :
     t \in {Nil, 1}, c \in {Nil, 1}, p \in {Nil, 0, 1}, k \in PageSizes \cup {Nil}}

ListCall(stack, in) ==
  [stack |-> stack, op |-> "list", tagID |-> in.tagID, categoryID |-> in.categoryID,
   page |-> in.page, pageSize |-> in.pageSize, id |-> Nil, fail |-> in.fail]

----------------------------------------------------------------------------
Init ==
  /\ news \in NewsTables
  /\ categories = CategoryTable
  /\ tags = TagTable
  /\ now = ClockNow
  /\ pc = "idle"
  /\ call = NoCall
  /\ ret = NoRet
  /\ io = NoIO
  /\ prev = NoPrev
  /\ proc = NoProc
  /\ inflight = NoFrames

(* the generations of each operation *)
WhereOf(stack, n, tagID, categoryID) ==
  CASE stack = "pgx"  -> PgNewsWhere(n, tagID, categoryID)
    [] stack \in {"gopg", "gopg2", "gopg3"} -> DbNewsWhere(n, tagID, categoryID)
    [] stack = "mfd"  -> MfdNewsWhere(n, tagID, categoryID)

ListOf(stack, in, ord) ==
  CASE stack = "pgx"  -> UcGetAllNews(in.tagID, in.categoryID, in.page, in.pageSize,
                                      in.fail, ord)
    [] stack = "gopg" -> MgrNewsByFilter(in.tagID, in.categoryID, in.page, in.pageSize,
                                         in.fail, ord)
    [] stack = "gopg2" -> Mgr2NewsByFilter(in.tagID, in.categoryID, in.page,
                                           in.pageSize, in.fail, ord)
    [] stack = "gopg3" -> Mgr3NewsByFilter(in.tagID, in.categoryID, in.page,
                                           in.pageSize, in.fail, ord)
    [] stack = "mfd"  -> NewsByFilter(in.tagID, in.categoryID, in.page, in.pageSize,
                                      in.fail, ord)

CountOf(stack, tagID, categoryID, fail) ==
  CASE stack = "pgx"  -> UcGetNewsCount(tagID, categoryID, fail)
    [] stack = "gopg" -> MgrNewsCount(tagID, categoryID, fail)
    [] stack = "mfd"  -> NewsCount(tagID, categoryID, fail)

ByIDOf(stack, newsID, fail) ==
  CASE stack = "pgx"  -> UcGetNewsByID(newsID, fail)
    [] stack = "gopg" -> MgrNewsByID(newsID, fail)
    [] stack = "gopg2" -> Mgr2NewsByID(newsID, fail)
    [] stack = "gopg3" -> Mgr3NewsByID(newsID, fail)
    [] stack = "mfd"  -> NewsByID(newsID, fail)

CategoriesOf(stack, fail) ==
  CASE stack = "pgx"  -> UcGetAllCategories(fail)
    [] stack = "gopg" -> MgrCategories(fail)
    [] stack = "mfd"  -> Categories(fail)

TagsOf(stack, fail) ==
  CASE stack = "pgx"  -> UcGetAllTags(fail)
    [] stack = "gopg" -> MgrTags(fail)
    [] stack = "mfd"  -> Tags(fail)

(* a return that also publishes every stored news row *)
ReturnsAndPublishes(c, o) ==
  /\ call' = c
  /\ ret' = o.ret
  /\ io' = o.io
  /\ pc' = "done"
  /\ news' = [n \in NewsIds |-> [news[n] EXCEPT !.StatusID = StatusPublished]]
  /\ UNCHANGED <<categories, tags, now, proc, inflight>>

Returns(c, o) ==
  /\ call' = c
  /\ ret' = o.ret
  /\ io' = o.io
  /\ pc' = "done"
  /\ UNCHANGED <<news, categories, tags, now, proc, inflight>>

CallList(stack, pages, sizes) ==
  /\ \E in \in ListInputs(pages, sizes) :
       \E ord \in DescOrders({n \in NewsIds : WhereOf(stack, n, in.tagID, in.categoryID)}) :
         Returns(ListCall(stack, in), ListOf(stack, in, ord))
  /\ UNCHANGED prev

CallCount(stack) ==
  /\ \E in \in CountInputs :
       Returns([NoCall EXCEPT !.stack = stack, !.op = "count", !.tagID = in.tagID,
                              !.categoryID = in.categoryID, !.fail = in.fail],
               CountOf(stack, in.tagID, in.categoryID, in.fail))
  /\ UNCHANGED prev

CallByID(stack) ==
  /\ \E newsID \in 1..(MaxNews + 1), fail \in Fails :
       Returns([NoCall EXCEPT !.stack = stack, !.op = "byid", !.id = newsID,
                              !.fail = fail],
               ByIDOf(stack, newsID, fail))
  /\ UNCHANGED prev

CallCategories(stack) ==
  /\ \E fail \in {"none", "fetch"} :
       Returns([NoCall EXCEPT !.stack = stack, !.op = "categories", !.fail = fail],
               CategoriesOf(stack, fail))
  /\ UNCHANGED prev

CallTags(stack) ==
  /\ \E fail \in {"none", "fetch"} :
       Returns([NoCall EXCEPT !.stack = stack, !.op = "tags", !.fail = fail],
               TagsOf(stack, fail))
  /\ UNCHANGED prev

PgxGetAllNews ==
  /\ pc = "idle"
  /\ CallList("pgx", Pages, PageSizes)

PgxGetNewsCount ==
  /\ pc = "idle"
  /\ CallCount("pgx")

PgxGetNewsByID ==
  /\ pc = "idle"
  /\ CallByID("pgx")

PgxGetAllCategories ==
  /\ pc = "idle"
  /\ CallCategories("pgx")

PgxGetAllTags ==
  /\ pc = "idle"
  /\ CallTags("pgx")


GopgNewsByFilter ==
  /\ pc = "idle"
  /\ CallList("gopg", Pages, PageSizes)

GopgNewsCount ==
  /\ pc = "idle"
  /\ CallCount("gopg")

GopgNewsByID ==
  /\ pc = "idle"
  /\ CallByID("gopg")

GopgCategories ==
  /\ pc = "idle"
  /\ CallCategories("gopg")

GopgTags ==
  /\ pc = "idle"
  /\ CallTags("gopg")


Gopg2NewsByFilter ==
  /\ pc = "idle"
  /\ CallList("gopg2", Pages, PageSizes)

Gopg2NewsByID ==
  /\ pc = "idle"
  /\ CallByID("gopg2")

Gopg3NewsByFilter ==
  /\ pc = "idle"
  /\ CallList("gopg3", Pages, PageSizes)

Gopg3NewsByID ==
  /\ pc = "idle"
  /\ CallByID("gopg3")


MfdNewsByFilter ==
  /\ pc = "idle"
  /\ CallList("mfd", Pages \cup {Nil}, PageSizes \cup {Nil})

MfdNewsCount ==
  /\ pc = "idle"
  /\ CallCount("mfd")

MfdNewsByID ==
  /\ pc = "idle"
  /\ CallByID("mfd")

MfdCategories ==
  /\ pc = "idle"
  /\ CallCategories("mfd")

MfdTags ==
  /\ pc = "idle"
  /\ CallTags("mfd")

RequestOf(stack, op, in, ord) ==
  CASE op = "rpc"     -> RpcList(in.tagID, in.categoryID, in.page, in.pageSize, ord)
    [] stack = "pgx"  -> HttpGetAllNews(in.tagID, in.categoryID, in.page, in.pageSize, ord)
    [] stack = "gopg" -> RestNews(in.tagID, in.categoryID, in.page, in.pageSize, ord)
    [] stack = "mfd"  -> RestNewsV2(in.tagID, in.categoryID, in.page, in.pageSize, ord)

ByIDRequestOf(stack, op, id) ==
  CASE op = "rpcbyid" -> RpcByID(id)
    [] stack = "pgx"  -> HttpGetNewsByID(id)
    [] stack = "gopg" -> RestNewsByID(id)
    [] stack = "mfd"  -> RestNewsByIDV2(id)

CallByIDRequest(stack, op) ==
  /\ \E id \in 0..(MaxNews + 1) :
       Returns([NoCall EXCEPT !.stack = stack, !.op = op, !.id = id],
               ByIDRequestOf(stack, op, id))
  /\ UNCHANGED prev

CallRequest(stack, op) ==
  /\ \E in \in RequestInputs :
       \E ord \in DescOrders({n \in NewsIds : WhereOf(stack, n, in.tagID, in.categoryID)}) :
         Returns([ListCall(stack, in) EXCEPT !.op = op], RequestOf(stack, op, in, ord))
  /\ UNCHANGED prev

DeliveryGetAllNews ==
  /\ pc = "idle"
  /\ CallRequest("pgx", "rest")

RestV1News ==
  /\ pc = "idle"
  /\ CallRequest("gopg", "rest")

RestV2News ==
  /\ pc = "idle"
  /\ CallRequest("mfd", "rest")

RpcNewsList ==
  /\ pc = "idle"
  /\ CallRequest("mfd", "rpc")

DeliveryGetNewsByID ==
  /\ pc = "idle"
  /\ CallByIDRequest("pgx", "restbyid")

RestV1NewsByID ==
  /\ pc = "idle"
  /\ CallByIDRequest("gopg", "restbyid")

RestV2NewsByID ==
  /\ pc = "idle"
  /\ CallByIDRequest("mfd", "restbyid")

RpcNewsByID ==
  /\ pc = "idle"
  /\ CallByIDRequest("mfd", "rpcbyid")

(* the same client asks for page 2 after a page 1 that succeeded: the same *)
(* filters and page size, a new query; the first call is kept in prev      *)
NextPage ==
  /\ pc = "done"
  /\ prev = NoPrev
  /\ call.op = "list" /\ call.page = 1 /\ call.fail = "none" /\ ret.err = "none"
  /\ LET in == [tagID |-> call.tagID, categoryID |-> call.categoryID, page |-> 2,
                pageSize |-> call.pageSize, fail |-> "none"]
     IN \E ord \in DescOrders({n \in NewsIds :
                                 WhereOf(call.stack, n, in.tagID, in.categoryID)}) :
          Returns(ListCall(call.stack, in), ListOf(call.stack, in, ord))
  /\ prev' = [call |-> call, ret |-> ret]

Next ==
  \/ PgxGetAllNews
  \/ PgxGetNewsCount
  \/ PgxGetNewsByID
  \/ PgxGetAllCategories
  \/ PgxGetAllTags
  \/ GopgNewsByFilter
  \/ GopgNewsCount
  \/ GopgNewsByID
  \/ GopgCategories
  \/ GopgTags
  \/ Gopg2NewsByFilter
  \/ Gopg2NewsByID
  \/ Gopg3NewsByFilter
  \/ Gopg3NewsByID
  \/ MfdNewsByFilter
  \/ MfdNewsCount
  \/ MfdNewsByID
  \/ MfdCategories
  \/ MfdTags
  \/ DeliveryGetAllNews
  \/ RestV1News
  \/ RestV2News
  \/ RpcNewsList
  \/ DeliveryGetNewsByID
  \/ RestV1NewsByID
  \/ RestV2NewsByID
  \/ RpcNewsByID
  \/ NextPage

Spec == Init /\ [][Next]_vars

----------------------------------------------------------------------------
(* Concurrent listings: Manager.NewsByFilter of part_017 with              *)
(* attachTagsBatch of part_016, and of news.go with fillTags, one          *)
(* goroutine per request.  The Manager has one field, the repository,      *)
(* which no method assigns.                                                *)

(* the callers share a table of visible rows of one category and time,     *)
(* which differ in their tag ids alone: the part of a row tag attach reads *)
ConcTables ==
  {t \in NewsTables :
     \A n \in NewsIds : /\ t[n].StatusID = StatusPublished
                        /\ t[n].CategoryID = 1
                        /\ t[n].PublishedAt = 1}

InitConc ==
  /\ news \in ConcTables
  /\ categories = CategoryTable
  /\ tags = TagTable
  /\ now = ClockNow
  /\ pc = "idle"
  /\ call = NoCall
  /\ ret = NoRet
  /\ io = NoIO
  /\ prev = NoPrev
  /\ proc = NoProc
  /\ inflight = NoFrames

ConcInputs ==
  {[tagID |-> Nil, categoryID |-> Nil, page |-> 1, pageSize |-> k, fail |-> "none"] :
     k \in {1, MaxPageSize}}

(* the storage state is the same for every caller, and so is the order in  *)
(* which the database returns rows of equal publishedAt                    *)
HeapOrder(S) == CHOOSE ord \in DescOrders(S) : TRUE

Matching(stack, in) == {n \in NewsIds : WhereOf(stack, n, in.tagID, in.categoryID)}

(* the page query: u.db.News / u.repo.NewsByFilters returns a new slice *)
CallerFetch(p) ==
  /\ inflight[p].at = "idle"
  /\ \E stack \in {"gopg", "mfd"}, in \in ConcInputs :
       LET ord == HeapOrder(Matching(stack, in))
           v == validatePagination(in.page, in.pageSize)
           rows == IF stack = "gopg"
                     THEN DbGetAllNews(in.tagID, in.categoryID, in.page, in.pageSize,
                                       in.fail, ord).rows
                     ELSE RepoNewsByFilters(v.p, v.ps, in.fail, ord).rows
       IN inflight' = [inflight EXCEPT ![p] =
                         [NoFrame EXCEPT !.at = "fetched", !.stack = stack, !.in = in,
                                         !.news = rows]]
  /\ UNCHANGED <<news, categories, tags, now, pc, call, ret, io, prev, proc>>

(* a slice that the Manager would keep for all callers: the page of the    *)
(* first caller that has fetched one                                       *)
SharedSlice(p) ==
  inflight[CHOOSE q \in Callers :
             /\ inflight[q].at = "fetched"
             /\ \A r \in Callers : inflight[r].at = "fetched" => q <= r].news

(* the slice tag attach works on: the parameter news, the caller's own *)
LocalSlice(p) == inflight[p].news

(* attachTagsBatch / fillTags over the slice *)
CallerAttach(p) ==
  /\ inflight[p].at = "fetched"
  /\ LET rows == IF inflight[p].stack = "gopg"
                   THEN attachTagsBatch(LocalSlice(p), inflight[p].in.fail).rows
                   ELSE fillTags(LocalSlice(p), inflight[p].in.fail).rows
     IN inflight' = [inflight EXCEPT ![p].at = "attached", ![p].news = rows]
  /\ UNCHANGED <<news, categories, tags, now, pc, call, ret, io, prev, proc>>

(* the conversion of the attached rows and the return *)
CallerReturn(p) ==
  /\ inflight[p].at = "attached"
  /\ LET rows == inflight[p].news
         out  == IF inflight[p].stack = "gopg"
                   THEN [i \in 1..Len(rows) |-> MgrNewNewsSummary(rows[i])]
                   ELSE rows
     IN inflight' = [inflight EXCEPT ![p].at = "done",
                                     ![p].ret = [NoRet EXCEPT !.rows = out,
                                                              !.attached = rows]]
  /\ UNCHANGED <<news, categories, tags, now, pc, call, ret, io, prev, proc>>

NextConc ==
  \/ \E p \in Callers : CallerFetch(p)
  \/ \E p \in Callers : CallerAttach(p)
  \/ \E p \in Callers : CallerReturn(p)

ConcSpec == InitConc /\ [][NextConc]_vars

----------------------------------------------------------------------------
(* The host process: runServer of part_026 over app.App (app.go:108-123),  *)
(* and main of part_028                                                    *)

engine == <<news, categories, tags, now, pc, call, ret, io, prev, inflight>>

InitServer ==
  /\ news \in NewsTables
  /\ categories = CategoryTable
  /\ tags = TagTable
  /\ now = ClockNow
  /\ pc = "idle"
  /\ call = NoCall
  /\ ret = NoRet
  /\ io = NoIO
  /\ prev = NoPrev
  /\ proc \in {StartedProc(m) : m \in {"runServer", "main"}}
  /\ inflight = NoFrames

Alive == proc.at \in {"waiting", "shutdown"}

(* the runtime delivers SIGINT or SIGTERM: signal.Notify sends without     *)
(* blocking, a signal that finds the channel full is dropped               *)
Signal ==
  /\ Alive
  /\ \E sig \in {"SIGINT", "SIGTERM"} :
       proc' = [proc EXCEPT !.quit = IF Len(@) < QuitCap THEN Append(@, sig) ELSE @,
                            !.signalled = TRUE]
  /\ UNCHANGED engine

(* the goroutine runs: App.Run assigns a.Server, ListenAndServe listens,   *)
(* or returns ErrServerClosed when Shutdown was called before it          *)
RunListen ==
  /\ Alive
  /\ proc.run = "start"
  /\ proc' = [proc EXCEPT !.server = TRUE,
                          !.run = IF proc.graceful THEN "closed" ELSE "serving"]
  /\ UNCHANGED engine

(* ListenAndServe returns an error other than ErrServerClosed: the address *)
(* cannot be bound, or Accept fails while serving                          *)
RunFail ==
  /\ Alive
  /\ proc.run \in {"start", "serving"}
  /\ ~proc.graceful
  /\ proc' = [proc EXCEPT !.server = TRUE, !.run = "failed", !.failed = TRUE]
  /\ UNCHANGED engine

(* after the failure: runServer sends SIGTERM to quit, blocking while the  *)
(* channel is full; main of part_028 calls os.Exit(1)                      *)
RunReport ==
  /\ Alive
  /\ proc.run = "failed"
  /\ IF proc.main = "runServer"
       THEN /\ Len(proc.quit) < QuitCap
            /\ proc' = [proc EXCEPT !.quit = Append(@, "SIGTERM"), !.run = "reported"]
       ELSE proc' = [proc EXCEPT !.run = "reported", !.at = "exited", !.exit = "exit1"]
  /\ UNCHANGED engine

(* Shutdown closed the listeners: ListenAndServe returns ErrServerClosed   *)
(* and the goroutine ends                                                  *)
RunClosed ==
  /\ Alive
  /\ proc.run = "serving"
  /\ proc.graceful
  /\ proc' = [proc EXCEPT !.run = "closed"]
  /\ UNCHANGED engine

(* <-quit returns; context.WithTimeout(ctx, 5*time.Second); Shutdown of    *)
(* the server, which is a nil pointer when App.Run has not assigned it yet *)
MainStop ==
  /\ proc.at = "waiting"
  /\ proc.quit # <<>>
  /\ proc' = IF proc.server
               THEN [proc EXCEPT !.quit = Tail(@), !.at = "shutdown", !.graceful = TRUE,
                                 !.elapsed = 0]
               ELSE [proc EXCEPT !.quit = Tail(@), !.at = "exited", !.exit = "panic"]
  /\ UNCHANGED engine

(* a second of the shutdown context passes *)
Tick ==
  /\ proc.at = "shutdown"
  /\ proc.elapsed < ShutdownTimeout
  /\ proc' = [proc EXCEPT !.elapsed = @ + 1]
  /\ UNCHANGED engine

(* Shutdown returns nil once no connection is active, or ctx.Err() at the  *)
(* deadline; the error is logged and main returns                          *)
ShutdownReturns ==
  /\ proc.at = "shutdown"
  /\ proc.active = 0 \/ proc.elapsed = ShutdownTimeout
  /\ proc' = [proc EXCEPT !.at = "exited",
                          !.exit = IF proc.active = 0 THEN "drained" ELSE "deadline"]
  /\ UNCHANGED engine

(* a client connection becomes active on the listening server *)
ConnOpen ==
  /\ Alive
  /\ proc.run = "serving"
  /\ ~proc.graceful
  /\ proc.active < MaxActive
  /\ proc' = [proc EXCEPT !.active = @ + 1]
  /\ UNCHANGED engine

(* an active connection finishes its request *)
ConnDone ==
  /\ Alive
  /\ proc.active > 0
  /\ proc' = [proc EXCEPT !.active = @ - 1]
  /\ UNCHANGED engine

NextServer ==
  \/ Signal
  \/ RunListen
  \/ RunFail
  \/ RunReport
  \/ RunClosed
  \/ MainStop
  \/ Tick
  \/ ShutdownReturns
  \/ ConnOpen
  \/ ConnDone

(* the Go scheduler runs every goroutine that can run, and time passes;    *)
(* signals, failures and clients are under no obligation                   *)
ServerFairness ==
  /\ WF_vars(RunListen)
  /\ WF_vars(RunReport)
  /\ WF_vars(RunClosed)
  /\ WF_vars(MainStop)
  /\ WF_vars(Tick)
  /\ WF_vars(ShutdownReturns)

ServerSpec == InitServer /\ [][NextServer]_vars /\ ServerFairness

----------------------------------------------------------------------------
(* Properties *)

Returned(ops) == pc = "done" /\ call.op \in ops

RowIds(rows) == {rows[i].NewsID : i \in 1..Len(rows)}

(* C1: every row returned by the listing or by the single lookup is, at    *)
(* the time of the call, published, in a published category and dated      *)
(* strictly before now.                                                     *)
C1_VisibilityInvariant ==
  Returned({"list", "byid"}) =>
    \A i \in 1..Len(ret.rows) :
      LET n == ret.rows[i].NewsID
      IN /\ news[n].StatusID = StatusPublished
         /\ categories[news[n].CategoryID].StatusID = StatusPublished
         /\ news[n].PublishedAt < now

(* C2: after tag attach every attached tag is a stored tag of published    *)
(* status (an unpublished or nonexistent id leaves no entry, never a zero  *)
(* value), and a row with no tag ids has an empty, non-nil tag sequence.   *)
C2_TagBatchDeterminism ==
  (Returned({"list", "byid"}) /\ ret.err = "none") =>
    \A i \in 1..Len(ret.attached) :
      LET r == ret.attached[i]
      IN /\ \A j \in 1..Len(r.Tags) :
              /\ r.Tags[j].TagID \in TagIds
              /\ tags[r.Tags[j].TagID].StatusID = StatusPublished
              /\ r.Tags[j].StatusID = StatusPublished
         /\ news[r.NewsID].TagIDs = <<>> => (r.Tags = <<>> /\ ~r.TagsNil)

(* C3: a listing called with page < 1 or pageSize < 1, the other parameter *)
(* given or absent, fails with the invalid-argument error and returns no   *)
(* rows.                                                                    *)
C3_InvalidPaginationRejected ==
  (/\ Returned({"list"})
   /\ \/ call.page # Nil /\ call.page < 1
      \/ call.pageSize # Nil /\ call.pageSize < 1)
  => (ret.err = "invalid" /\ ret.rows = <<>>)

C3_Witness ==
  /\ Returned({"list"})
  /\ call.page = Nil /\ call.pageSize = 0
  /\ \E n \in NewsIds : IsVisible(n)
  /\ ret.err = "invalid"

(* C4: with the same filters and page size k >= 1 and no write in between, *)
(* page 1 and page 2 share no row id.                                       *)
C4_PaginationPartition ==
  (pc = "done" /\ prev # NoPrev) =>
    RowIds(prev.ret.rows) \cap RowIds(ret.rows) = {}

(* C5: every row a listing returns has the category of the category        *)
(* filter, when one is given, and the tag of the tag filter among its tag  *)
(* ids, when one is given; both when both are given.                        *)
C5_FilterCorrectness ==
  Returned({"list"}) =>
    \A i \in 1..Len(ret.rows) :
      /\ call.categoryID # Nil => ret.rows[i].CategoryID = call.categoryID
      /\ call.tagID # Nil =>
           \E j \in 1..Len(news[ret.rows[i].NewsID].TagIDs) :
             news[ret.rows[i].NewsID].TagIDs[j] = call.tagID

C5_Witness ==
  /\ Returned({"list"})
  /\ call.categoryID # Nil /\ call.tagID # Nil
  /\ Len(ret.rows) > 0
  /\ \E n \in NewsIds : IsVisible(n) /\ n \notin RowIds(ret.rows)

(* C6: the count for a filter combination equals the number of rows the    *)
(* listing returns for the same filters on one page large enough to hold   *)
(* every row.                                                               *)
C6_CountAgreesWithListing ==
  (Returned({"count"}) /\ ret.err = "none") =>
    \A ord \in DescOrders({n \in NewsIds :
                             WhereOf(call.stack, n, call.tagID, call.categoryID)}) :
      ret.count = Len(ListOf(call.stack,
                             [tagID |-> call.tagID, categoryID |-> call.categoryID,
                              page |-> 1, pageSize |-> MaxNews, fail |-> "none"],
                             ord).ret.rows)

(* C7: a listing or single lookup that references any tag id issues        *)
(* exactly one tag lookup to storage, however many rows reference tags.    *)
C7_OneTagBatchLookup ==
  (Returned({"list", "byid"}) /\ ret.err = "none" /\ io.requested # {}) =>
    io.tagLookups = 1

(* C8: when the storage call of an operation (page fetch, count, single    *)
(* row fetch, category list, tag list) fails, the operation returns the    *)
(* storage error, never a success, and makes the call once.                *)
C8_StorageFailureSurfaced ==
  (pc = "done" /\ call.fail = "fetch") =>
    (ret.err = "storage" /\ io.queries = 1)

PageLength(total, page, pageSize) ==
  LET p  == IF page = Nil THEN defaultPage ELSE page
      ps == IF pageSize = Nil THEN defaultPageSize ELSE pageSize
      left == total - (p - 1) * ps
  IN IF left <= 0 THEN 0 ELSE Min(ps, left)

(* C9: a listing returns either the complete page, each row with its       *)
(* published tags attached, or an error and no rows; a tag lookup that     *)
(* fails after the page was fetched gives an error and no rows.            *)
C9_NoPartialResult ==
  Returned({"list"}) =>
    /\ \/ /\ ret.err = "none"
          /\ Len(ret.rows) =
               PageLength(Cardinality({n \in NewsIds :
                            WhereOf(call.stack, n, call.tagID, call.categoryID)}),
                          call.page, call.pageSize)
          /\ \A i \in 1..Len(ret.rows) :
               \A t \in Range(news[ret.rows[i].NewsID].TagIDs) \cap TagIds :
                 tags[t].StatusID = StatusPublished =>
                   \E j \in 1..Len(ret.rows[i].Tags) : ret.rows[i].Tags[j].TagID = t
       \/ ret.err # "none" /\ ret.rows = <<>>
    /\ (call.fail = "tags" /\ io.tagLookups > 0) => (ret.err # "none" /\ ret.rows = <<>>)

(* C10: a single lookup whose id has no visible match returns no row and   *)
(* no error.                                                                *)
C10_AbsentIsNotAnError ==
  (/\ Returned({"byid"})
   /\ call.fail = "none"
   /\ ~(call.id \in NewsIds /\ IsVisible(call.id)))
  => (ret.err = "none" /\ ret.rows = <<>>)

(* C11: a single lookup of an id that exists but is hidden (unpublished,   *)
(* in an unpublished category, or future-dated) returns what the lookup of *)
(* an id that does not exist returns, and none of the hidden row's data.    *)
C11_HiddenLooksAbsent ==
  (/\ Returned({"byid"})
   /\ call.fail = "none"
   /\ call.id \in NewsIds
   /\ ~IsVisible(call.id))
  => (/\ ret = ByIDOf(call.stack, MaxNews + 1, "none").ret
      /\ ret.rows = <<>>)

(* C12: within one listing result consecutive rows have non-increasing    *)
(* publication timestamps.                                                  *)
C12_SortedByPublishedAtDesc ==
  Returned({"list"}) =>
    \A i \in 1..(Len(ret.rows) - 1) :
      ret.rows[i].PublishedAt >= ret.rows[i + 1].PublishedAt

C12_Witness ==
  /\ Returned({"list"})
  /\ Len(ret.rows) >= 2
  /\ ret.rows[1].PublishedAt > ret.rows[2].PublishedAt
  /\ ret.rows[1].NewsID > ret.rows[2].NewsID

(* C13: a listing that succeeds for page p >= 1 and page size k >= 1       *)
(* returns the rows at offset (p-1)*k, limit k, of the filtered, visible   *)
(* rows in publication order: at most k rows, exactly k when p*k rows      *)
(* match, none when (p-1)*k reaches the number of matching rows.           *)
C13_PaginationWindow ==
  (Returned({"list"}) /\ ret.err = "none") =>
    LET p == IF call.page = Nil THEN defaultPage ELSE call.page
        k == IF call.pageSize = Nil THEN defaultPageSize ELSE call.pageSize
        V == {n \in NewsIds :
                /\ news[n].StatusID = StatusPublished
                /\ categories[news[n].CategoryID].StatusID = StatusPublished
                /\ news[n].PublishedAt < now
                /\ call.categoryID # Nil => news[n].CategoryID = call.categoryID
                /\ call.tagID # Nil => call.tagID \in Range(news[n].TagIDs)}
    IN /\ Len(ret.rows) <= k
       /\ Cardinality(V) >= p * k => Len(ret.rows) = k
       /\ (p - 1) * k >= Cardinality(V) => ret.rows = <<>>
       /\ \E ord \in DescOrders(V) :
            /\ Len(ret.rows) = PageLength(Cardinality(V), call.page, call.pageSize)
            /\ \A i \in 1..Len(ret.rows) : ret.rows[i].NewsID = ord[(p - 1) * k + i]

(* a listing request as a client sends it: through a handler, or to the    *)
(* Manager that validates its own paging                                   *)
IsListingRequest ==
  /\ pc = "done"
  /\ call.fail = "none"
  /\ \/ call.op \in {"rest", "rpc"}
     \/ call.op = "list" /\ call.stack = "mfd"

ServedBy(c, ord) ==
  IF c.op = "list" THEN ListOf(c.stack, c, ord) ELSE RequestOf(c.stack, c.op, c, ord)

(* C14: a listing request with a page size above maxPageSize succeeds and  *)
(* is answered as the same request with page size maxPageSize, the query   *)
(* carrying LIMIT maxPageSize; a page size in 1..maxPageSize reaches the    *)
(* query unchanged.                                                        *)
C14_PageSizeCapped ==
  (/\ IsListingRequest
   /\ call.page = Nil \/ call.page > 0
   /\ call.pageSize # Nil)
  => /\ call.pageSize > maxPageSize =>
          /\ ret.err = "none"
          /\ io.limit = maxPageSize
          /\ \E ord \in DescOrders({n \in NewsIds :
                                     WhereOf(call.stack, n, call.tagID, call.categoryID)}) :
               ret = ServedBy([call EXCEPT !.pageSize = maxPageSize], ord).ret
     /\ call.pageSize \in 1..maxPageSize =>
          /\ ret.err = "none"
          /\ io.limit = call.pageSize

C14_Witness ==
  /\ IsListingRequest
  /\ call.op = "rest"
  /\ call.pageSize > maxPageSize
  /\ io.limit = maxPageSize
  /\ Len(ret.rows) = MaxNews

(* C15: every row a listing returns, from the engine or through a handler, *)
(* has its body content dropped; the single lookup returns the stored      *)
(* body.                                                                   *)
C15_ListingDropsContent ==
  /\ Returned({"list", "rest", "rpc"}) =>
       \A i \in 1..Len(ret.rows) : ret.rows[i].Content = 0
  /\ (Returned({"byid"}) /\ ret.rows # <<>>) =>
       ret.rows[1].Content = news[ret.rows[1].NewsID].Content

ListIds(list, field) == {list[i][field] : i \in 1..Len(list)}

(* C16: the category listing returns exactly the published categories and  *)
(* the tag listing exactly the published tags, each once.                  *)
C16_ListingsArePublishedRows ==
  /\ (Returned({"categories"}) /\ ret.err = "none") =>
       /\ ListIds(ret.list, "CategoryID")
            = {c \in CatIds : categories[c].StatusID = StatusPublished}
       /\ Len(ret.list) = Cardinality(ListIds(ret.list, "CategoryID"))
  /\ (Returned({"tags"}) /\ ret.err = "none") =>
       /\ ListIds(ret.list, "TagID")
            = {t \in TagIds : tags[t].StatusID = StatusPublished}
       /\ Len(ret.list) = Cardinality(ListIds(ret.list, "TagID"))

PageTagIds == UNION {Range(news[ret.rows[i].NewsID].TagIDs) : i \in 1..Len(ret.rows)}

C19_LookupRequestsUnion ==
  (Returned({"list", "byid"}) /\ ret.err = "none" /\ PageTagIds # {}) =>
    /\ io.requested = PageTagIds
    /\ io.sent = Cardinality(PageTagIds)
    /\ io.fetched \subseteq PageTagIds

(* C20: after tag attach the tags of every row are in ascending title      *)
(* order, whatever the order of the row's tag-id list.                     *)
C20_AttachedTagsByTitle ==
  (Returned({"list", "byid"}) /\ ret.err = "none") =>
    \A i \in 1..Len(ret.attached) :
      \A j \in 1..(Len(ret.attached[i].Tags) - 1) :
        ret.attached[i].Tags[j].Title <= ret.attached[i].Tags[j + 1].Title

C22_BoundedRoundTrips ==
  /\ Returned({"list"}) => io.queries <= 2
  /\ Returned({"byid"}) => io.queries <= 3

(* C24: a listing request through a REST handler with page <= 0 or         *)
(* pageSize <= 0 is answered as a bad request (400), never as an internal  *)
(* error (500).                                                            *)
C24_InvalidPagingIsBadRequest ==
  (/\ Returned({"rest"})
   /\ \/ call.page # Nil /\ call.page <= 0
      \/ call.pageSize # Nil /\ call.pageSize <= 0)
  => ret.err = "badrequest"

(* C25: a single lookup through a handler that finds no visible match is   *)
(* answered not-found (404), never an internal error (500).                *)
C25_AbsentIsNotFound ==
  (/\ Returned({"restbyid", "rpcbyid"})
   /\ call.id >= 1
   /\ call.id \notin NewsIds \/ ~IsVisible(call.id))
  => ret.err = "notfound404"

(* C27: every row of a listing result is found by the single lookup of its *)
(* id on the same tables at the same time, with the same id, the same      *)
(* category and the same attached tags.                                    *)
C27_ListingAgreesWithLookup ==
  (Returned({"list"}) /\ ret.err = "none") =>
    \A i \in 1..Len(ret.rows) :
      LET b == ByIDOf(call.stack, ret.rows[i].NewsID, "none").ret
      IN /\ b.err = "none"
         /\ Len(b.rows) = 1
         /\ b.rows[1].NewsID = ret.rows[i].NewsID
         /\ b.rows[1].Category = ret.rows[i].Category
         /\ b.rows[1].Tags = ret.rows[i].Tags

(* the tag-id list the stored row of an attached row has *)
OwnTagIds(r) == Range(news[r.NewsID].TagIDs)

(* C28: after tag attach every tag of a row has an id of that row's own    *)
(* tag-id list, and a row has no more tags than tag ids.                   *)
C28_AttachedTagsAreOwn ==
  (Returned({"list", "byid"}) /\ ret.err = "none") =>
    \A i \in 1..Len(ret.attached) :
      /\ TagIdsOf(ret.attached[i].Tags) \subseteq OwnTagIds(ret.attached[i])
      /\ Len(ret.attached[i].Tags) <= Len(news[ret.attached[i].NewsID].TagIDs)

(* the row tag attach is given: the database row, or the News converted    *)
(* from it where the Manager converts first                                *)
AttachInput(stack, n) == IF stack = "gopg2" THEN ListNewNews(DbNews(n)) ELSE DbNews(n)

WithoutTags(r) == [r EXCEPT !.Tags = <<>>, !.TagsNil = TRUE]

(* C29: tag attach returns its input rows, as many and in the same order,  *)
(* with nothing but the attached tag list changed: id, category, content,  *)
(* time, status and the tag-id list are those of the input.                *)
C29_AttachChangesOnlyTags ==
  (Returned({"list", "byid"}) /\ ret.err = "none") =>
    /\ Len(ret.attached) = Len(ret.rows)
    /\ \A i \in 1..Len(ret.attached) :
         /\ ret.attached[i].NewsID = ret.rows[i].NewsID
         /\ WithoutTags(ret.attached[i])
              = WithoutTags(AttachInput(call.stack, ret.attached[i].NewsID))

(* C30: tag attach never fails with an index out of range, and no stored   *)
(* tag is attached to a row whose tag-id list does not hold its id.        *)
C30_AttachStaysInRange ==
  Returned({"list", "byid"}) =>
    /\ ret.err # "panic"
    /\ \A i \in 1..Len(ret.attached) :
         (TagIdsOf(ret.attached[i].Tags) \cap TagIds) \subseteq OwnTagIds(ret.attached[i])

(* C26: once the process has received SIGINT or SIGTERM, or the server's   *)
(* run loop has failed, it eventually starts the graceful shutdown of the  *)
(* HTTP server; the shutdown never runs past its 5-second timeout, and     *)
(* after it the process exits.                                             *)
C26_GracefulShutdown ==
  /\ ((proc.signalled \/ proc.failed) ~> proc.graceful)
  /\ [](proc.at = "shutdown" => proc.elapsed <= ShutdownTimeout)
  /\ (proc.graceful ~> (proc.at = "exited"))

(* the result of a caller's listing run alone *)
Alone(p) ==
  ListOf(inflight[p].stack, inflight[p].in,
         HeapOrder(Matching(inflight[p].stack, inflight[p].in))).ret

====
